---- MODULE Spec2Model ----
(***************************************************************************)
(* A model of pyrail's iRail client (src/pyrail/irail.py): the parameter   *)
(* validator, the two-pool token bucket, the ETag cache and do_request,    *)
(* run by several asyncio tasks that share one client.                     *)
(*                                                                         *)
(* asyncio is cooperative: a task runs without interruption from one       *)
(* suspension point (an await that really suspends) to the next.  Each     *)
(* action below is one such run of one task.                               *)
(*                                                                         *)
(* Strings are sequences of one-character strings, so that the parsers     *)
(* (strptime, int) are modelled by what they do to the characters.         *)
(***************************************************************************)
EXTENDS Integers, Sequences, FiniteSets, TLC

(***************************************************************************)
(* Bounds of the model.                                                    *)
(***************************************************************************)
\* Number of concurrent tasks calling do_request on the one client.
NumCallers == 2
\* Total number of entries into do_request (first calls and 429 retries).
MaxAttempts == 12
\* The same, where the server may answer with every status and failure.
MaxPipelineAttempts == 3
\* The clock stops advancing at MaxTime ticks.
MaxTime == 7
\* Clock ticks per second: time.time() is a float, a tick is 1/6 s, so that
\* int(elapsed * 3) truncates half tokens.
TicksPerSecond == 6

Callers == 1..NumCallers

Min(a, b) == IF a <= b THEN a ELSE b
Max(a, b) == IF a >= b THEN a ELSE b

(***************************************************************************)
(* Values.                                                                 *)
(***************************************************************************)
\* Python's None as an argument value; no string, whose elements are single
\* characters, equals it.
None == <<"None">>
Digits == {"0", "1", "2", "3", "4", "5", "6", "7", "8", "9"}
NonZeroDigits == Digits \ {"0"}
IsDigit(ch) == ch \in Digits
DigitVal(ch) ==
    CASE ch = "0" -> 0 [] ch = "1" -> 1 [] ch = "2" -> 2 [] ch = "3" -> 3
      [] ch = "4" -> 4 [] ch = "5" -> 5 [] ch = "6" -> 6 [] ch = "7" -> 7
      [] ch = "8" -> 8 [] ch = "9" -> 9 [] OTHER -> 0

\* The number a run of n characters of s from position i denotes (a leading
\* space, as in the day " 5", counts as 0).
RECURSIVE NumAt(_, _, _)
NumAt(s, i, n) ==
    IF n = 0 THEN 0 ELSE NumAt(s, i, n - 1) * 10 + DigitVal(s[i + n - 1])

\* s[i] and s[i+1] exist
Has2(s, i) == i >= 1 /\ i + 1 <= Len(s)
Has1(s, i) == i >= 1 /\ i <= Len(s)

(***************************************************************************)
(* datetime.strptime(date, "%d%m%y"), as _validate_date uses it.  The      *)
(* format compiles to the regular expression                               *)
(*   (3[0-1]|[1-2]\d|0[1-9]|[1-9]| [1-9])(1[0-2]|0[1-9]|[1-9])(\d\d)        *)
(* matched with backtracking from the start of the string; the first match *)
(* in the order of the alternatives is taken, text left over after it is   *)
(* an error, and so is a day the month does not have.                      *)
(***************************************************************************)
Day2(s, i) ==
    /\ Has2(s, i)
    /\ \/ s[i] = "3" /\ s[i + 1] \in {"0", "1"}
       \/ s[i] \in {"1", "2"} /\ IsDigit(s[i + 1])
       \/ s[i] = "0" /\ s[i + 1] \in NonZeroDigits
       \/ s[i] = " " /\ s[i + 1] \in NonZeroDigits
Day1(s, i) == Has1(s, i) /\ s[i] \in NonZeroDigits
Month2(s, i) ==
    /\ Has2(s, i)
    /\ \/ s[i] = "1" /\ s[i + 1] \in {"0", "1", "2"}
       \/ s[i] = "0" /\ s[i + 1] \in NonZeroDigits
Month1(s, i) == Has1(s, i) /\ s[i] \in NonZeroDigits
Year2(s, i) == Has2(s, i) /\ IsDigit(s[i]) /\ IsDigit(s[i + 1])

DayIs(s, n) == IF n = 2 THEN Day2(s, 1) ELSE Day1(s, 1)
MonthIs(s, i, n) == IF n = 2 THEN Month2(s, i) ELSE Month1(s, i)

\* The widths <<day, month>> the regular expression can match with, in the
\* order backtracking tries them.
WidthOrder == << <<2, 2>>, <<2, 1>>, <<1, 2>>, <<1, 1>> >>
DateMatches(s, w) ==
    DayIs(s, w[1]) /\ MonthIs(s, 1 + w[1], w[2]) /\ Year2(s, 1 + w[1] + w[2])

IsLeap(year) == year % 4 = 0 /\ (year % 100 # 0 \/ year % 400 = 0)
DaysInMonth(month, year) ==
    CASE month = 2 -> IF IsLeap(year) THEN 29 ELSE 28
      [] month \in {4, 6, 9, 11} -> 30
      [] OTHER -> 31

\* TRUE when strptime(s, "%d%m%y") returns, FALSE when it raises ValueError
StrptimeDate(s) ==
    LET hits == {k \in 1..4 : DateMatches(s, WidthOrder[k])}
    IN  IF hits = {} THEN FALSE
        ELSE LET k == CHOOSE j \in hits : \A h \in hits : j <= h
                 w == WidthOrder[k]
                 day == NumAt(s, 1, w[1])
                 month == NumAt(s, 1 + w[1], w[2])
                 yy == NumAt(s, 1 + w[1] + w[2], 2)
                 year == IF yy <= 68 THEN 2000 + yy ELSE 1900 + yy
             IN  /\ w[1] + w[2] + 2 = Len(s)
                 /\ day <= DaysInMonth(month, year)

(***************************************************************************)
(* datetime.strptime(time, "%H%M"): (2[0-3]|[0-1]\d|\d)([0-5]\d|\d)        *)
(***************************************************************************)
Hour2(s, i) ==
    /\ Has2(s, i)
    /\ \/ s[i] = "2" /\ s[i + 1] \in {"0", "1", "2", "3"}
       \/ s[i] \in {"0", "1"} /\ IsDigit(s[i + 1])
Hour1(s, i) == Has1(s, i) /\ IsDigit(s[i])
Minute2(s, i) ==
    Has2(s, i) /\ s[i] \in {"0", "1", "2", "3", "4", "5"} /\ IsDigit(s[i + 1])
Minute1(s, i) == Has1(s, i) /\ IsDigit(s[i])

TimeMatches(s, w) ==
    /\ IF w[1] = 2 THEN Hour2(s, 1) ELSE Hour1(s, 1)
    /\ IF w[2] = 2 THEN Minute2(s, 1 + w[1]) ELSE Minute1(s, 1 + w[1])

StrptimeTime(s) ==
    LET hits == {k \in 1..4 : TimeMatches(s, WidthOrder[k])}
    IN  IF hits = {} THEN FALSE
        ELSE LET k == CHOOSE j \in hits : \A h \in hits : j <= h
                 w == WidthOrder[k]
             IN  w[1] + w[2] = Len(s)

\* Python's truth value of an argument: None and "" are false
Falsy(v) == v = None \/ v = <<>>

_validate_date(date) == IF Falsy(date) THEN TRUE ELSE StrptimeDate(date)

_validate_time(time) == IF Falsy(time) THEN TRUE ELSE StrptimeTime(time)

(***************************************************************************)
(* The endpoint table; a missing "required", "xor" or "optional" reads as  *)
(* the empty list (endpoint.get(..., [])).                                 *)
(***************************************************************************)
Descriptor(req, x, opt) == [required |-> req, xor |-> x, optional |-> opt]

endpoints ==
    [stations |-> Descriptor(<<>>, <<>>, <<>>),
     liveboard |-> Descriptor(<<>>, <<"station", "id">>,
                              <<"date", "time", "arrdep", "alerts">>),
     connections |-> Descriptor(<<"from", "to">>, <<>>,
                                <<"date", "time", "timesel", "typeOfTransport",
                                  "alerts", "results">>),
     vehicle |-> Descriptor(<<"id">>, <<>>, <<"date", "alerts">>),
     composition |-> Descriptor(<<"id">>, <<>>, <<"data">>),
     disturbances |-> Descriptor(<<>>, <<>>, <<"lineBreakCharacter">>)]

Methods == DOMAIN endpoints

Range(seq) == {seq[i] : i \in 1..Len(seq)}

\* params is a function from the keys present to their values
Present(params, p) == p \in DOMAIN params /\ params[p] # None

\* validate_params with an XOR check that only rejects two or more
validate_params_xor_at_most_one(method, params) ==
    IF method \notin DOMAIN endpoints THEN FALSE
    ELSE LET endpoint == endpoints[method]
             required == endpoint.required
             xor == endpoint.xor
             optional == endpoint.optional
             all_params == required \o xor \o optional
         IN  IF "date" \in DOMAIN params /\ ~_validate_date(params["date"])
                 THEN FALSE
             ELSE IF "time" \in DOMAIN params /\ ~_validate_time(params["time"])
                 THEN FALSE
             ELSE IF \E i \in 1..Len(required) :
                        required[i] \notin DOMAIN params
                            \/ params[required[i]] = None
                 THEN FALSE
             ELSE IF xor # <<>>
                     /\ Cardinality({i \in 1..Len(xor) : Present(params, xor[i])}) > 1
                 THEN FALSE
             ELSE IF \E p \in DOMAIN params : p \notin Range(all_params)
                 THEN FALSE
             ELSE TRUE

validate_params(method, params) ==
    IF method \notin DOMAIN endpoints THEN FALSE
    ELSE LET endpoint == endpoints[method]
             required == endpoint.required
             xor == endpoint.xor
             optional == endpoint.optional
             all_params == required \o xor \o optional
         IN  IF "date" \in DOMAIN params /\ ~_validate_date(params["date"])
                 THEN FALSE
             ELSE IF "time" \in DOMAIN params /\ ~_validate_time(params["time"])
                 THEN FALSE
             ELSE IF \E i \in 1..Len(required) :
                        required[i] \notin DOMAIN params
                            \/ params[required[i]] = None
                 THEN FALSE
             ELSE IF xor # <<>>
                     /\ Cardinality({i \in 1..Len(xor) : Present(params, xor[i])}) # 1
                 THEN FALSE
             ELSE IF \E p \in DOMAIN params : p \notin Range(all_params)
                 THEN FALSE
             ELSE TRUE

(***************************************************************************)
(* The endpoint methods used as call sites: each drops the arguments that  *)
(* are None and hands the rest to do_request.                              *)
(***************************************************************************)
DropNone(extra_params) ==
    [k \in {p \in DOMAIN extra_params : extra_params[p] # None} |-> extra_params[k]]

Departure == <<"d", "e", "p", "a", "r", "t", "u", "r", "e">>
StrTrue == <<"t", "r", "u", "e">>
StrFalse == <<"f", "a", "l", "s", "e">>

Request(method, args) == [method |-> method, args |-> args]

get_stations == Request("stations", <<>>)

get_liveboard(station, id, date, time, arrdep, alerts) ==
    Request("liveboard",
            DropNone([station |-> station, id |-> id, date |-> date,
                      time |-> time, arrdep |-> arrdep,
                      alerts |-> IF alerts THEN StrTrue ELSE StrFalse]))

\* The calls the tasks make.
Requests ==
    {get_stations,
     get_liveboard(<<"G">>, None, None, None, Departure, FALSE),
     get_liveboard(<<"G">>, <<"8">>, None, None, Departure, FALSE),
     get_liveboard(None, None, None, None, Departure, FALSE)}

(***************************************************************************)
(* Responses of the server, as far as do_request reads them.               *)
(***************************************************************************)
\* Headers are a function from the names present to their values.
NoHeaders == <<>>
Header(name, value) == [k \in {name} |-> value]
EtagValues == {"v1", "v2"}
\* The headers of a 200 response: with or without an Etag.
EtagHeaders == {NoHeaders} \cup {Header("Etag", v) : v \in EtagValues}
\* Values of the Retry-After header: seconds, or text that is no number.
RetryAfterValues == {<<"0">>, <<"1">>, <<"x">>}
\* The headers of a 429 response: with or without a Retry-After.
RetryAfterHeaders ==
    {NoHeaders} \cup {Header("Retry-After", v) : v \in RetryAfterValues}
\* Statuses do_request has no branch for.
OtherStatuses == {500}
\* The body of a 200 response: JSON with content, the empty JSON object, or
\* text that is no JSON.
Bodies == {"data", "{}", "malformed"}

\* int(s) of a string of decimal digits; "invalid" where int raises ValueError
IsNumber(s) == Len(s) >= 1 /\ \A i \in 1..Len(s) : IsDigit(s[i])
ParseInt(s) == NumAt(s, 1, Len(s))

(***************************************************************************)
(* State.                                                                  *)
(***************************************************************************)
VARIABLES
    now,                \* time.time(), in ticks
    tokens,             \* self.tokens
    burst_tokens,       \* self.burst_tokens
    last_request_time,  \* self.last_request_time, in ticks
    locked,             \* self.lock: asyncio.Lock._locked
    waiters,            \* self.lock: asyncio.Lock._waiters, first come first
    session,            \* self.session: "none", "open" or "closed"
    etag_cache,         \* self.etag_cache, a function from the keys it holds
    task,               \* per caller: where its do_request call stands
    attempts,           \* entries into do_request so far
    acquired,           \* history: passes of _handle_rate_limit completed
    removed,            \* history: tokens taken out of the two pools
    lastEtag200,        \* history: per endpoint, the headers of the latest 200
    refills,            \* history: the refills since the steady pool was full
    delivered,          \* history: <<endpoint, Etag>> of the bodies returned
    v_method,           \* validate_params alone: the endpoint name
    v_params,           \* validate_params alone: the arguments
    v_done,             \* validate_params alone: validate_params has run
    v_result            \* validate_params alone: what validate_params returned

limiterVars == <<tokens, burst_tokens, last_request_time>>
lockVars == <<locked, waiters>>
historyVars == <<acquired, removed, lastEtag200, refills, delivered>>
validatorVars == <<v_method, v_params, v_done, v_result>>
vars == <<now, tokens, burst_tokens, last_request_time, locked, waiters,
          session, etag_cache, task, attempts, acquired, removed, lastEtag200,
          refills, delivered, v_method, v_params, v_done, v_result>>

\* What do_request returns for "no result".
NoResult == "None"

\* A caller that has not called do_request.
IdleTask ==
    [pc |-> "idle", method |-> "stations", args |-> <<>>,
     result |-> "unset",    \* the value returned, or the exception raised
     outcome |-> "unset",   \* history: the branch of do_request that ended it
     wake |-> 0,            \* when the pending asyncio.sleep is over
     ticket |-> 0,          \* history: its place among the entries into
                            \* "async with self.lock", while it is in there
     sent |-> NoHeaders,    \* request headers of the latest network call
     status |-> 0,          \* response.status of the latest response
     headers |-> NoHeaders, \* response.headers of the latest response
     body |-> "",           \* the body of the latest 200 response
     netCalls |-> 0,        \* history: network calls of this call
     n429 |-> 0,            \* history: 429 responses of this call
     t429 |-> 0,            \* history: time the latest 429 was received
     d429 |-> 0]            \* history: retry_after read from the latest 429

InitValidator ==
    /\ v_method = "stations"
    /\ v_params = <<>>
    /\ v_done = FALSE
    /\ v_result = FALSE

\* iRail.__init__
InitClient ==
    /\ now = 0
    /\ tokens = 3
    /\ burst_tokens = 5
    /\ last_request_time = now
    /\ locked = FALSE
    /\ waiters = <<>>
    /\ session = "none"
    /\ etag_cache = <<>>
    /\ task = [c \in Callers |-> IdleTask]
    /\ attempts = 0
    /\ acquired = 0
    /\ removed = 0
    /\ lastEtag200 = <<>>
    /\ refills = [since |-> now, added |-> 0]
    /\ delivered = {}

Init == InitClient /\ InitValidator

(***************************************************************************)
(* The token bucket, on a record of the three limiter fields.              *)
(***************************************************************************)
Limiter ==
    [tokens |-> tokens, burst_tokens |-> burst_tokens,
     last_request_time |-> last_request_time]

\* Python's int() of the quotient num / den: truncation toward zero
IntTrunc(num, den) ==
    IF num >= 0 THEN num \div den ELSE -((-num) \div den)

\* _refill_tokens without the caps
_refill_tokens_uncapped(L, current_time) ==
    LET elapsed == current_time - L.last_request_time
    IN  [tokens |-> L.tokens + IntTrunc(elapsed * 3, TicksPerSecond),
         burst_tokens |-> L.burst_tokens + IntTrunc(elapsed * 3, TicksPerSecond),
         last_request_time |-> current_time]

_refill_tokens(L, current_time) ==
    LET elapsed == current_time - L.last_request_time
    IN  [tokens |-> Min(3, L.tokens + IntTrunc(elapsed * 3, TicksPerSecond)),
         burst_tokens |->
             Min(5, L.burst_tokens + IntTrunc(elapsed * 3, TicksPerSecond)),
         last_request_time |-> current_time]

\* _handle_rate_limit taking from the burst pool before the steady pool
_handle_rate_limit_burst_first(L, t) ==
    LET R == _refill_tokens(L, t)
    IN  IF R.burst_tokens < 1
        THEN IF R.tokens >= 1
             THEN [lim |-> [R EXCEPT !.tokens = @ - 1],
                   sleep |-> FALSE, wait_time |-> 0]
             ELSE [lim |-> R, sleep |-> TRUE,
                   wait_time |->
                       Max(0, TicksPerSecond - (t - R.last_request_time))]
        ELSE [lim |-> [R EXCEPT !.burst_tokens = @ - 1],
              sleep |-> FALSE, wait_time |-> 0]

\* _handle_rate_limit sleeping for the time one token takes to accrue
_handle_rate_limit_one_token(L, t) ==
    LET R == _refill_tokens(L, t)
    IN  IF R.tokens < 1
        THEN IF R.burst_tokens >= 1
             THEN [lim |-> [R EXCEPT !.burst_tokens = @ - 1],
                   sleep |-> FALSE, wait_time |-> 0]
             ELSE [lim |-> R, sleep |-> TRUE,
                   wait_time |-> TicksPerSecond \div 3]
        ELSE [lim |-> [R EXCEPT !.tokens = @ - 1],
              sleep |-> FALSE, wait_time |-> 0]

\* _handle_rate_limit up to its return or its asyncio.sleep: the limiter
\* after it, whether it sleeps, and for how long.
_handle_rate_limit(L, t) ==
    LET R == _refill_tokens(L, t)
    IN  IF R.tokens < 1
        THEN IF R.burst_tokens >= 1
             THEN [lim |-> [R EXCEPT !.burst_tokens = @ - 1],
                   sleep |-> FALSE, wait_time |-> 0]
             ELSE [lim |-> R, sleep |-> TRUE,
                   wait_time |->
                       Max(0, TicksPerSecond - (t - R.last_request_time))]
        ELSE [lim |-> [R EXCEPT !.tokens = @ - 1],
              sleep |-> FALSE, wait_time |-> 0]

\* _handle_rate_limit after its asyncio.sleep
AfterSleep(L, t) ==
    LET R == _refill_tokens(L, t)
    IN  [R EXCEPT !.tokens = @ - 1]

PoolSum(L) == L.tokens + L.burst_tokens

SetLimiter(L) ==
    /\ tokens' = L.tokens
    /\ burst_tokens' = L.burst_tokens
    /\ last_request_time' = L.last_request_time

\* The record of refills after _refill_tokens has run on L at current_time:
\* a refill that brings the steady pool to its cap starts a new record, any
\* other adds what it put into the pool.
Refilled(L, current_time) ==
    LET elapsed == current_time - L.last_request_time
        add == IntTrunc(elapsed * 3, TicksPerSecond)
    IN  IF L.tokens + add >= 3
        THEN [since |-> current_time, added |-> 0]
        ELSE [refills EXCEPT !.added = @ + add]

(***************************************************************************)
(* do_request, piece by piece.                                             *)
(***************************************************************************)
UserAgent == "pyRail (https://github.com/tjorim/pyrail; tielemans.jorim@gmail.com)"

\* d[key] = value, as a new function
DictSet(d, key, value) ==
    [k \in DOMAIN d \cup {key} |-> IF k = key THEN value ELSE d[k]]

\* _add_etag_header that never adds If-None-Match
_add_etag_header_plain(method) == Header("User-Agent", UserAgent)

_add_etag_header(method) ==
    LET headers == Header("User-Agent", UserAgent)
    IN  IF method \in DOMAIN etag_cache
        THEN DictSet(headers, "If-None-Match", etag_cache[method])
        ELSE headers

\* do_request is left: what belongs to the call is gone; the arguments, the
\* result and the branch taken stay for the caller
Left(T) ==
    [T EXCEPT !.wake = 0, !.ticket = 0, !.sent = NoHeaders, !.status = 0,
              !.headers = NoHeaders, !.body = "",
              !.netCalls = 0, !.n429 = 0, !.t429 = 0, !.d429 = 0]

\* "return v" from the branch named why; a retry returns what the call it
\* made returns ("return await self.do_request(method, args)")
Returned(T, v, why) ==
    [Left(T) EXCEPT !.pc = "done", !.result = v, !.outcome = why]

\* exception exc leaves do_request, and every retry that led to it; the
\* response that was being handled stays on record
Raised(T, exc, why) ==
    [Left(T) EXCEPT !.pc = "raised", !.result = exc, !.outcome = why,
                    !.status = T.status, !.headers = T.headers]

\* Lines 222-231: the headers are built and session.get is entered, with no
\* response yet.  A closed aiohttp session raises RuntimeError("Session is
\* closed"), which is no ClientError.
Send(T) ==
    LET N == [T EXCEPT !.ticket = 0, !.status = 0, !.headers = NoHeaders,
                       !.body = ""]
    IN  IF session = "closed"
        THEN Raised(N, "RuntimeError", "session_closed")
        ELSE [N EXCEPT !.pc = "awaiting", !.sent = _add_etag_header(T.method),
                       !.netCalls = @ + 1]

\* a lock that never makes a caller wait
LockIgnored == TRUE

\* a lock taken by whoever finds it released, waiters or not
LockBarging == ~locked

\* asyncio.Lock.acquire returns at once when the lock is free and nobody waits
LockFree == ~locked /\ waiters = <<>>

\* "async with self.lock: await self._handle_rate_limit()" from the moment
\* caller c holds the lock; rest is the queue of waiters without c.
Limit(c, T, rest) ==
    LET E == _handle_rate_limit(Limiter, now)
        R == _refill_tokens(Limiter, now)
    IN  /\ SetLimiter(E.lim)
        /\ refills' = Refilled(Limiter, now)
        /\ waiters' = rest
        /\ IF E.sleep
           THEN /\ locked' = TRUE
                /\ task' = [task EXCEPT ![c] =
                               [T EXCEPT !.pc = "rl_sleep",
                                         !.wake = now + E.wait_time]]
                /\ UNCHANGED <<acquired, removed>>
           ELSE /\ locked' = FALSE
                /\ task' = [task EXCEPT ![c] = Send(T)]
                /\ acquired' = acquired + 1
                /\ removed' = removed + (PoolSum(R) - PoolSum(E.lim))

\* do_request taking its token before it looks at the arguments
EnterUnvalidated(c, T) ==
    /\ attempts' = attempts + 1
    /\ IF session = "none"
       THEN /\ task' = [task EXCEPT ![c] = Returned(T, NoResult, "not_initialized")]
            /\ UNCHANGED <<limiterVars, lockVars, acquired, removed, refills>>
       ELSE IF LockFree
       THEN Limit(c, [T EXCEPT !.ticket = attempts + 1], waiters)
       ELSE /\ waiters' = Append(waiters, c)
            /\ task' = [task EXCEPT ![c] =
                           [T EXCEPT !.pc = "wait_lock",
                                     !.ticket = attempts + 1]]
            /\ UNCHANGED <<limiterVars, locked, acquired, removed, refills>>

\* do_request from its first line to its first suspension or its return
Enter(c, T) ==
    /\ attempts' = attempts + 1
    /\ IF session = "none"
       THEN /\ task' = [task EXCEPT ![c] = Returned(T, NoResult, "not_initialized")]
            /\ UNCHANGED <<limiterVars, lockVars, acquired, removed, refills>>
       ELSE IF ~validate_params(T.method, T.args)
       THEN /\ task' = [task EXCEPT ![c] = Returned(T, NoResult, "validation")]
            /\ UNCHANGED <<limiterVars, lockVars, acquired, removed, refills>>
       ELSE IF LockFree
       THEN Limit(c, [T EXCEPT !.ticket = attempts + 1], waiters)
       ELSE /\ waiters' = Append(waiters, c)
            /\ task' = [task EXCEPT ![c] =
                           [T EXCEPT !.pc = "wait_lock",
                                     !.ticket = attempts + 1]]
            /\ UNCHANGED <<limiterVars, locked, acquired, removed, refills>>

(***************************************************************************)
(* Actions.                                                                *)
(***************************************************************************)
\* The clock advances by k ticks.
Tick(k) ==
    /\ now + k <= MaxTime
    /\ now' = now + k
    /\ UNCHANGED <<limiterVars, lockVars, session, etag_cache, task, attempts,
                   historyVars, validatorVars>>

\* __aenter__
AEnter ==
    /\ session # "open"
    /\ session' = "open"
    /\ UNCHANGED <<now, limiterVars, lockVars, etag_cache, task, attempts,
                   historyVars, validatorVars>>

\* __aexit__: closes the session and keeps the reference to it
AExit ==
    /\ session = "open"
    /\ session' = "closed"
    /\ UNCHANGED <<now, limiterVars, lockVars, etag_cache, task, attempts,
                   historyVars, validatorVars>>

\* Caller c calls do_request(rq.method, rq.args).
Call(c, rq) ==
    /\ task[c].pc \in {"idle", "done", "raised"}
    /\ attempts < MaxAttempts
    /\ Enter(c, [IdleTask EXCEPT !.method = rq.method, !.args = rq.args])
    /\ UNCHANGED <<now, session, etag_cache, lastEtag200, delivered,
                   validatorVars>>

\* The lock is released and c is the first waiter: c is given the lock.
LockGranted(c) ==
    /\ task[c].pc = "wait_lock"
    /\ ~locked
    /\ waiters # <<>>
    /\ Head(waiters) = c
    /\ Limit(c, task[c], Tail(waiters))
    /\ UNCHANGED <<now, session, etag_cache, attempts, lastEtag200, delivered,
                   validatorVars>>

\* The sleep inside _handle_rate_limit is over.
WakeRateLimit(c) ==
    /\ task[c].pc = "rl_sleep"
    /\ now >= task[c].wake
    /\ LET R == _refill_tokens(Limiter, now)
           L == AfterSleep(Limiter, now)
       IN  /\ SetLimiter(L)
           /\ refills' = Refilled(Limiter, now)
           /\ removed' = removed + (PoolSum(R) - PoolSum(L))
    /\ acquired' = acquired + 1
    /\ locked' = FALSE
    /\ task' = [task EXCEPT ![c] = Send(task[c])]
    /\ UNCHANGED <<now, waiters, session, etag_cache, attempts, lastEtag200,
                   delivered, validatorVars>>

\* ClientError out of session.get: the except branch returns None.
TransportError(c) ==
    /\ task[c].pc = "awaiting"
    /\ task' = [task EXCEPT ![c] = Returned(@, NoResult, "transport")]
    /\ UNCHANGED <<now, limiterVars, lockVars, session, etag_cache, attempts,
                   historyVars, validatorVars>>

\* Status 429 retried without the sleep
Respond429NoSleep(c, h) ==
    /\ task[c].pc = "awaiting"
    /\ session = "open"
    /\ attempts < MaxAttempts
    /\ LET T == [task[c] EXCEPT !.status = 429, !.headers = h,
                                !.n429 = @ + 1, !.t429 = now]
       IN  IF "Retry-After" \in DOMAIN h /\ ~IsNumber(h["Retry-After"])
           THEN task' = [task EXCEPT ![c] = Raised(T, "ValueError", "retry_after")]
           ELSE LET retry_after == IF "Retry-After" \in DOMAIN h
                                   THEN ParseInt(h["Retry-After"])
                                   ELSE 1
                IN  task' = [task EXCEPT ![c] =
                        [T EXCEPT !.pc = "sleep429", !.d429 = retry_after,
                                  !.wake = now]]
    /\ UNCHANGED <<now, limiterVars, lockVars, session, etag_cache, attempts,
                   historyVars, validatorVars>>

\* Status 429 with headers h: int(headers.get("Retry-After", 1)), then the
\* sleep before the retry.  int of text that is no number raises ValueError,
\* which no except clause of do_request catches.
Respond429(c, h) ==
    /\ task[c].pc = "awaiting"
    /\ session = "open"
    /\ attempts < MaxAttempts
    /\ LET T == [task[c] EXCEPT !.status = 429, !.headers = h,
                                !.n429 = @ + 1, !.t429 = now]
       IN  IF "Retry-After" \in DOMAIN h /\ ~IsNumber(h["Retry-After"])
           THEN task' = [task EXCEPT ![c] = Raised(T, "ValueError", "retry_after")]
           ELSE LET retry_after == IF "Retry-After" \in DOMAIN h
                                   THEN ParseInt(h["Retry-After"])
                                   ELSE 1
                IN  task' = [task EXCEPT ![c] =
                        [T EXCEPT !.pc = "sleep429", !.d429 = retry_after,
                                  !.wake = now + retry_after * TicksPerSecond]]
    /\ UNCHANGED <<now, limiterVars, lockVars, session, etag_cache, attempts,
                   historyVars, validatorVars>>

\* The sleep after a 429 is over: "return await self.do_request(method, args)".
Retry(c) ==
    /\ task[c].pc = "sleep429"
    /\ now >= task[c].wake
    /\ Enter(c, task[c])
    /\ UNCHANGED <<now, session, etag_cache, lastEtag200, delivered,
                   validatorVars>>

\* Status 400: the body is read for the log.
Respond400(c) ==
    /\ task[c].pc = "awaiting"
    /\ session = "open"
    /\ task' = [task EXCEPT ![c] = [@ EXCEPT !.pc = "read_text", !.status = 400]]
    /\ UNCHANGED <<now, limiterVars, lockVars, session, etag_cache, attempts,
                   historyVars, validatorVars>>

\* Status 404.
Respond404(c) ==
    /\ task[c].pc = "awaiting"
    /\ session = "open"
    /\ task' = [task EXCEPT ![c] =
                   Returned([@ EXCEPT !.status = 404], NoResult, "not_found")]
    /\ UNCHANGED <<now, limiterVars, lockVars, session, etag_cache, attempts,
                   historyVars, validatorVars>>

\* Status 200 with headers h and body b: the Etag is cached, then the body
\* is awaited.
Respond200(c, h, b) ==
    /\ task[c].pc = "awaiting"
    /\ session = "open"
    /\ etag_cache' = IF "Etag" \in DOMAIN h
                     THEN DictSet(etag_cache, task[c].method, h["Etag"])
                     ELSE etag_cache
    /\ lastEtag200' = DictSet(lastEtag200, task[c].method, h)
    /\ task' = [task EXCEPT ![c] =
                   [@ EXCEPT !.pc = "read_json", !.status = 200,
                             !.headers = h, !.body = b]]
    /\ UNCHANGED <<now, limiterVars, lockVars, session, attempts, acquired,
                   removed, refills, delivered, validatorVars>>

\* response.json() that drops the cached validator when the body is no JSON
ReadJsonEvicts(c, ok) ==
    /\ task[c].pc = "read_json"
    /\ task' = [task EXCEPT ![c] =
                   IF ~ok THEN Returned(@, NoResult, "transport")
                   ELSE IF @.body = "malformed"
                   THEN Returned(@, NoResult, "malformed")
                   ELSE Returned(@, @.body, "ok")]
    /\ delivered' =
           IF ok /\ task[c].body # "malformed" /\ "Etag" \in DOMAIN task[c].headers
           THEN delivered \cup {<<task[c].method, task[c].headers["Etag"]>>}
           ELSE delivered
    /\ etag_cache' =
           IF ok /\ task[c].body = "malformed"
           THEN [m \in DOMAIN etag_cache \ {task[c].method} |-> etag_cache[m]]
           ELSE etag_cache
    /\ UNCHANGED <<now, limiterVars, lockVars, session, attempts,
                   acquired, removed, lastEtag200, refills, validatorVars>>

\* response.json() returns the parsed body (ok), raises ValueError on text
\* that is no JSON (caught: None), or raises a ClientError while reading
\* (not ok; caught by the outer except: None).
ReadJson(c, ok) ==
    /\ task[c].pc = "read_json"
    /\ task' = [task EXCEPT ![c] =
                   IF ~ok THEN Returned(@, NoResult, "transport")
                   ELSE IF @.body = "malformed"
                   THEN Returned(@, NoResult, "malformed")
                   ELSE Returned(@, @.body, "ok")]
    /\ delivered' =
           IF ok /\ task[c].body # "malformed" /\ "Etag" \in DOMAIN task[c].headers
           THEN delivered \cup {<<task[c].method, task[c].headers["Etag"]>>}
           ELSE delivered
    /\ UNCHANGED <<now, limiterVars, lockVars, session, etag_cache, attempts,
                   acquired, removed, lastEtag200, refills, validatorVars>>

\* Status 304 handled by forgetting the validator of the endpoint
Respond304Forgets(c) ==
    /\ task[c].pc = "awaiting"
    /\ session = "open"
    /\ task' = [task EXCEPT ![c] =
                   Returned([@ EXCEPT !.status = 304], NoResult, "not_modified")]
    /\ etag_cache' = [m \in DOMAIN etag_cache \ {task[c].method} |-> etag_cache[m]]
    /\ UNCHANGED <<now, limiterVars, lockVars, session, attempts,
                   historyVars, validatorVars>>

\* Status 304.
Respond304(c) ==
    /\ task[c].pc = "awaiting"
    /\ session = "open"
    /\ task' = [task EXCEPT ![c] =
                   Returned([@ EXCEPT !.status = 304], NoResult, "not_modified")]
    /\ UNCHANGED <<now, limiterVars, lockVars, session, etag_cache, attempts,
                   historyVars, validatorVars>>

\* Any other status: the body is read for the log.
RespondOther(c, st) ==
    /\ task[c].pc = "awaiting"
    /\ session = "open"
    /\ task' = [task EXCEPT ![c] = [@ EXCEPT !.pc = "read_text", !.status = st]]
    /\ UNCHANGED <<now, limiterVars, lockVars, session, etag_cache, attempts,
                   historyVars, validatorVars>>

\* response.text() returns (ok) or raises a ClientError; None either way.
ReadText(c, ok) ==
    /\ task[c].pc = "read_text"
    /\ task' = [task EXCEPT ![c] =
                   IF ~ok THEN Returned(@, NoResult, "transport")
                   ELSE IF @.status = 400 THEN Returned(@, NoResult, "bad_request")
                   ELSE Returned(@, NoResult, "unexpected")]
    /\ UNCHANGED <<now, limiterVars, lockVars, session, etag_cache, attempts,
                   historyVars, validatorVars>>

\* waiters without caller c
Without(queue, c) == SelectSeq(queue, LAMBDA w : w # c)

\* The suspension points of do_request.
Suspended == {"wait_lock", "rl_sleep", "sleep429", "awaiting", "read_json",
              "read_text"}

\* The branch a cancelled call ends in, by where it was suspended.
CancelledAt(pc) ==
    CASE pc = "wait_lock" -> "cancelled_wait_lock"
      [] pc = "rl_sleep" -> "cancelled_rl_sleep"
      [] pc = "sleep429" -> "cancelled_sleep429"
      [] OTHER -> "cancelled_transport"

\* A cancellation that leaves "async with self.lock" without releasing
CancelHoldingLock(c) ==
    /\ task[c].pc \in Suspended
    /\ task' = [task EXCEPT ![c] = Raised(@, "CancelledError", CancelledAt(@.pc))]
    /\ waiters' = Without(waiters, c)
    /\ UNCHANGED <<now, limiterVars, locked, session, etag_cache, attempts,
                   historyVars, validatorVars>>

\* The caller cancels the task while do_request is suspended: CancelledError
\* is raised at the await.  Lock.acquire takes a cancelled waiter out of the
\* queue; "async with self.lock" releases the lock on the way out of
\* _handle_rate_limit's sleep; no except clause of do_request catches it.
Cancel(c) ==
    /\ task[c].pc \in Suspended
    /\ task' = [task EXCEPT ![c] = Raised(@, "CancelledError", CancelledAt(@.pc))]
    /\ waiters' = Without(waiters, c)
    /\ locked' = IF task[c].pc = "rl_sleep" THEN FALSE ELSE locked
    /\ UNCHANGED <<now, limiterVars, session, etag_cache, attempts,
                   historyVars, validatorVars>>

(***************************************************************************)
(* Specifications.                                                         *)
(***************************************************************************)
\* The request pipeline against a server that may answer with every status,
\* header and failure.  The two pools hold 8 tokens at the start and a pass
\* of _handle_rate_limit takes one, so within MaxPipelineAttempts entries
\* _handle_rate_limit never sleeps and nobody waits for the lock:
\* LockGranted and WakeRateLimit cannot fire and are left to SpecLimiter.
Next ==
    \/ Tick(TicksPerSecond)
    \/ AEnter
    \/ AExit
    \/ \E c \in Callers : \E rq \in Requests :
           attempts < MaxPipelineAttempts /\ Call(c, rq)
    \/ \E c \in Callers : TransportError(c)
    \/ \E c \in Callers : \E h \in RetryAfterHeaders :
           attempts < MaxPipelineAttempts /\ Respond429(c, h)
    \/ \E c \in Callers : Retry(c)
    \/ \E c \in Callers : Respond400(c)
    \/ \E c \in Callers : Respond404(c)
    \/ \E c \in Callers : \E h \in EtagHeaders : \E b \in Bodies :
           Respond200(c, h, b)
    \/ \E c \in Callers : \E ok \in BOOLEAN : ReadJson(c, ok)
    \/ \E c \in Callers : Respond304(c)
    \/ \E c \in Callers : \E st \in OtherStatuses : RespondOther(c, st)
    \/ \E c \in Callers : \E ok \in BOOLEAN : ReadText(c, ok)

Spec == Init /\ [][Next]_vars

\* The rate limiter under load: the callers ask for the stations again and
\* again and the server answers 200 with a body that parses.
NextLimiter ==
    \/ Tick(1)
    \/ AEnter
    \/ \E c \in Callers : Call(c, get_stations)
    \/ \E c \in Callers : LockGranted(c)
    \/ \E c \in Callers : WakeRateLimit(c)
    \/ \E c \in Callers : Respond200(c, NoHeaders, "data")
    \/ \E c \in Callers : ReadJson(c, TRUE)

SpecLimiter == Init /\ [][NextLimiter]_vars

\* The same load with the server at times answering 429 without Retry-After
\* and the callers at times cancelling their calls.
NextCancel ==
    \/ Tick(1)
    \/ AEnter
    \/ \E c \in Callers : Call(c, get_stations)
    \/ \E c \in Callers : LockGranted(c)
    \/ \E c \in Callers : WakeRateLimit(c)
    \/ \E c \in Callers : Respond429(c, NoHeaders)
    \/ \E c \in Callers : Retry(c)
    \/ \E c \in Callers : Respond200(c, NoHeaders, "data")
    \/ \E c \in Callers : ReadJson(c, TRUE)
    \/ \E c \in Callers : Cancel(c)

SpecCancel == Init /\ [][NextCancel]_vars

(***************************************************************************)
(* validate_params on its own: every endpoint name, known or not, with     *)
(* every argument mapping over the keys and values below.                  *)
(***************************************************************************)
\* A key the mapping does not hold.
Absent == <<"Absent">>
PlainChoices == {Absent, None, <<"x">>}
DateChoices ==
    {Absent, None, <<>>,
     <<"1", "5", "0", "9", "2", "3">>,      \* 15 September 2023
     <<"3", "1", "0", "2", "2", "3">>,      \* 31 February
     <<"2", "9", "0", "2", "2", "4">>,      \* 29 February of a leap year
     <<"1", "5", "0", "9">>}                \* read as 1 May 2009
TimeChoices ==
    {Absent, <<"1", "4", "3", "0">>, <<"2", "5", "3", "0">>, <<"9", "3", "0">>}
MethodChoices == Methods \cup {"timetable"}

\* the mapping that holds the keys of choice that are not Absent
Pack(choice) ==
    [k \in {p \in DOMAIN choice : choice[p] # Absent} |-> choice[k]]

ArgChoices ==
    {Pack([station |-> st, id |-> id, from |-> fr, to |-> to, alerts |-> al,
           platform |-> pl, date |-> da, time |-> ti]) :
        st \in PlainChoices, id \in PlainChoices, fr \in PlainChoices,
        to \in {Absent, <<"x">>}, al \in {Absent, StrTrue},
        pl \in PlainChoices, da \in DateChoices, ti \in TimeChoices}

InitValidate ==
    /\ InitClient
    /\ v_method \in MethodChoices
    /\ v_params \in ArgChoices
    /\ v_done = FALSE
    /\ v_result = FALSE

Validate ==
    /\ ~v_done
    /\ v_done' = TRUE
    /\ v_result' = validate_params(v_method, v_params)
    /\ UNCHANGED <<now, limiterVars, lockVars, session, etag_cache, task,
                   attempts, historyVars, v_method, v_params>>

NextValidate == Validate

SpecValidate == InitValidate /\ [][NextValidate]_vars

(***************************************************************************)
(* Properties.                                                             *)
(***************************************************************************)
Finished == {"idle", "done", "raised"}
InSection == {c \in Callers : task[c].pc = "rl_sleep"}

\* C1: whatever acquisitions and clock advances have happened, the steady
\* count is between 0 and 3 and the burst count between 0 and 5.
C1_TokensWithinCaps ==
    /\ tokens \in 0..3
    /\ burst_tokens \in 0..5

\* Both pools were drained, an acquisition slept through a second and took
\* its token after the refill.
C1_Witness ==
    /\ acquired = 9
    /\ now >= TicksPerSecond
    /\ tokens = 2
    /\ burst_tokens = 3

\* C2: at most one caller is inside the refill-and-consume section (the lock
\* is held exactly while a caller is suspended inside it), and the tokens
\* taken out of the two pools are as many as the acquisitions completed.
C2_OneInSectionNoTokenLost ==
    /\ Cardinality(InSection) <= 1
    /\ locked <=> InSection # {}
    /\ removed = acquired

\* One caller sleeps inside the section while the other waits for the lock.
C2_Witness ==
    \E c, d \in Callers :
        /\ task[c].pc = "rl_sleep"
        /\ task[d].pc = "wait_lock"
        /\ waiters = <<d>>
        /\ acquired = 8

\* Caller c starts a do_request call in this step.
Starts(c) == task[c].pc \in Finished /\ task'[c] # task[c]

\* Caller c's request goes out to the network in this step.
Sends(c) == task[c].pc # "awaiting" /\ task'[c].pc = "awaiting"

\* C3: a call whose endpoint name or arguments validate_params rejects ends
\* at once with the absent result, with no network call and with the lock,
\* the limiter and the ETag cache untouched; a call that passes validation
\* goes on to rate limiting.
C3_ValidationBeforeAnything ==
    [][\A c \in Callers :
          Starts(c) =>
              IF validate_params(task'[c].method, task'[c].args)
              THEN session # "none" =>
                       \/ acquired' = acquired + 1
                       \/ task'[c].pc \in {"wait_lock", "rl_sleep"}
              ELSE /\ task'[c].pc = "done"
                   /\ task'[c].result = NoResult
                   /\ UNCHANGED <<limiterVars, lockVars, etag_cache, acquired>>
      ]_vars

\* With the session open, get_liveboard with both station and id, and
\* get_liveboard with neither, have been turned away, all tokens in place.
C3_Witness ==
    /\ session = "open"
    /\ task[1].outcome = "validation"
    /\ {"station", "id"} \subseteq DOMAIN task[1].args
    /\ task[2].outcome = "validation"
    /\ {"station", "id"} \cap DOMAIN task[2].args = {}
    /\ tokens = 3
    /\ burst_tokens = 5

\* What the claim C4 lists: the endpoint is known, every required parameter
\* is present and not None, exactly one member of the XOR group (if any) is
\* present and not None, and no key is outside required, xor and optional.
ListedConditions(method, params) ==
    /\ method \in Methods
    /\ \A p \in Range(endpoints[method].required) : Present(params, p)
    /\ endpoints[method].xor # <<>> =>
           \E p \in Range(endpoints[method].xor) :
               /\ Present(params, p)
               /\ \A q \in Range(endpoints[method].xor) \ {p} : ~Present(params, q)
    /\ DOMAIN params \subseteq
           Range(endpoints[method].required) \cup Range(endpoints[method].xor)
               \cup Range(endpoints[method].optional)

\* C4 as stated: validate_params accepts exactly when the listed conditions
\* hold.
C4_AcceptsIffListed ==
    v_done => (v_result <=> ListedConditions(v_method, v_params))

\* C4, amended: validate_params accepts exactly when the listed conditions
\* hold and, besides, a "date" among the keys passes _validate_date and a
\* "time" among the keys passes _validate_time.
C4_AcceptsIffListedAndWellFormed ==
    v_done =>
        (v_result <=>
            /\ ListedConditions(v_method, v_params)
            /\ "date" \in DOMAIN v_params => _validate_date(v_params["date"])
            /\ "time" \in DOMAIN v_params => _validate_time(v_params["time"]))

\* A liveboard request with a station, a date and a time has been accepted.
C4_Witness ==
    /\ v_done
    /\ v_result
    /\ v_method = "liveboard"
    /\ DOMAIN v_params = {"station", "date", "time"}
    /\ v_params["date"] = <<"1", "5", "0", "9", "2", "3">>

\* C5: a request to an endpoint whose latest 200 response carried an Etag
\* goes out with If-None-Match set to that Etag; a request to an endpoint
\* with no cached validator goes out without If-None-Match.
C5_ValidatorAttached ==
    [][\A c \in Callers :
          Sends(c) =>
              LET m == task'[c].method
                  sent == task'[c].sent
              IN  /\ (m \in DOMAIN lastEtag200 /\ "Etag" \in DOMAIN lastEtag200[m])
                         => /\ "If-None-Match" \in DOMAIN sent
                            /\ sent["If-None-Match"] = lastEtag200[m]["Etag"]
                  /\ m \notin DOMAIN etag_cache
                         => "If-None-Match" \notin DOMAIN sent
      ]_vars

\* The Etag of the endpoint was replaced by a later 200 response and a
\* request carrying the later one is on its way.
C5_Witness ==
    \E c \in Callers :
        /\ task[c].pc = "awaiting"
        /\ attempts = 3
        /\ "If-None-Match" \in DOMAIN task[c].sent
        /\ task[c].sent["If-None-Match"] = "v2"
        /\ lastEtag200[task[c].method] = Header("Etag", "v2")

\* C6: a 304 response makes do_request return the result without payload
\* and leaves the ETag cache as it is, so that the next request to the
\* endpoint goes out with the validator cached before.
C6_NotModifiedKeepsCache ==
    [][\A c \in Callers :
          /\ (task[c].pc = "awaiting" /\ task'[c].outcome = "not_modified")
                 => /\ task'[c].pc = "done"
                    /\ task'[c].result = NoResult
                    /\ etag_cache' = etag_cache
          /\ (Sends(c) /\ task'[c].method \in DOMAIN etag_cache)
                 => /\ "If-None-Match" \in DOMAIN task'[c].sent
                    /\ task'[c].sent["If-None-Match"] = etag_cache[task'[c].method]
      ]_vars

\* A conditional request was answered 304 and the validator is still cached.
C6_Witness ==
    \E c \in Callers :
        /\ task[c].outcome = "not_modified"
        /\ task[c].method \in DOMAIN etag_cache
        /\ task[c].method \in DOMAIN lastEtag200

\* The response that ends caller c's call arrives, or has arrived, in full.
Answered(c) ==
    \/ task[c].pc \in {"read_json", "read_text"}
    \/ task[c].pc = "awaiting" /\ task'[c].outcome \in {"not_modified", "not_found"}

\* C7: the request that follows a 429 goes out no earlier than retry_after
\* seconds after the 429 came in; a call that met one 429 and then another
\* status has made exactly two network calls, and returns what the second
\* response yields: the parsed body of a 200, nothing otherwise.
C7_OneRetryAfterDelay ==
    [][\A c \in Callers :
          /\ (Sends(c) /\ task[c].n429 >= 1)
                 => now' >= task[c].t429 + task[c].d429 * TicksPerSecond
          /\ (task'[c].pc = "done" /\ task[c].n429 = 1 /\ Answered(c))
                 => /\ task[c].netCalls = 2
                    /\ task'[c].result =
                           IF task'[c].outcome = "ok" THEN task[c].body ELSE NoResult
                    /\ task'[c].outcome = "ok"
                           => task[c].status = 200 /\ task[c].body # "malformed"
      ]_vars

\* A call was told to retry after 1 second, did so a second later and got
\* the body of the second response.
C7_Witness ==
    \E c \in Callers :
        /\ task[c].pc = "read_json"
        /\ task[c].n429 = 1
        /\ task[c].d429 = 1
        /\ task[c].netCalls = 2
        /\ task[c].body = "data"
        /\ now >= TicksPerSecond

\* The results after which the caller knows only that there is no data.
AbsentOutcomes ==
    {"validation", "malformed", "bad_request", "not_found", "unexpected"}

\* C8: what do_request returns after a transport failure, and what it
\* returns after a 304, differs from what it returns after a validation
\* failure, a malformed body or an error status.
C8_OutcomesTellApart ==
    \A c, d \in Callers :
        (/\ task[c].pc = "done"
         /\ task[d].pc = "done"
         /\ task[c].outcome \in {"transport", "not_modified"}
         /\ task[d].outcome \in AbsentOutcomes)
            => task[c].result # task[d].result

\* headers carry a Retry-After that is a number of seconds
HasSeconds(headers) ==
    "Retry-After" \in DOMAIN headers /\ IsNumber(headers["Retry-After"])

\* C9: a 429 response without Retry-After, or with one that is no number of
\* seconds, makes do_request wait 1 second and retry: no exception leaves
\* do_request, and the lock is free and both counts within their caps.
C9_RetryAfterDefaultsToOne ==
    \A c \in Callers :
        (/\ task[c].status = 429
         /\ task[c].pc \in {"sleep429", "raised"}
         /\ ~HasSeconds(task[c].headers))
            => /\ task[c].pc = "sleep429"
               /\ task[c].d429 = 1
               /\ task[c].wake = task[c].t429 + TicksPerSecond
               /\ ~locked
               /\ tokens \in 0..3
               /\ burst_tokens \in 0..5

\* C10: while the transport is not open (never opened, or closed again), a
\* do_request call takes no token, makes no network call and returns the
\* session-not-initialized outcome.
C10_NoSessionNoRequest ==
    [][\A c \in Callers :
          (Starts(c) /\ session # "open") =>
              /\ task'[c].pc = "done"
              /\ task'[c].result = NoResult
              /\ task'[c].outcome = "not_initialized"
              /\ UNCHANGED <<limiterVars, acquired>>
      ]_vars

\* Caller c's call is cancelled in this step.
Cancelled(c) == task[c].pc \in Suspended /\ task'[c].result = "CancelledError"

\* C11: when a call is cancelled while it waits for the lock, sleeps inside
\* _handle_rate_limit, sleeps after a 429 or awaits the transport, it is no
\* longer in the queue of the lock and does not hold the lock (which is held
\* only by another caller inside the section), the two counts are what they
\* were, and the tokens taken so far are as many as the acquisitions completed.
C11_CancelLeavesLimiterSound ==
    [][\A c \in Callers :
          Cancelled(c) =>
              /\ \A i \in 1..Len(waiters') : waiters'[i] # c
              /\ locked' => \E d \in Callers \ {c} : task'[d].pc = "rl_sleep"
              /\ tokens' = tokens
              /\ burst_tokens' = burst_tokens
              /\ removed = acquired
              /\ removed' = acquired'
      ]_vars

\* A call was cancelled during the sleep of _handle_rate_limit, and the
\* caller that waited behind it went on to take its token.
C11_Witness ==
    \E c, d \in Callers :
        /\ task[c].outcome = "cancelled_rl_sleep"
        /\ task[c].pc = "raised"
        /\ task[d].pc = "awaiting"
        /\ ~locked
        /\ waiters = <<>>
        /\ acquired = 9
        /\ attempts = 10

\* Caller c completes a pass of _handle_rate_limit in this step.
Acquires(c) == acquired' = acquired + 1 /\ task'[c] # task[c]

\* Callers inside "async with self.lock", waiting for the lock or holding it.
Contending == {c \in Callers : task[c].pc \in {"wait_lock", "rl_sleep"}}

\* The place of caller c among the entries into "async with self.lock": the
\* one it got when it began to wait, or the next one when it enters now.
TicketOf(c) == IF c \in Contending THEN task[c].ticket ELSE attempts'

\* C12: when a call completes its token acquisition, every other call still
\* waiting for the lock (or for its token) began to wait after it did.
C12_AcquireInArrivalOrder ==
    [][\A c \in Callers :
          Acquires(c) =>
              \A d \in Contending \ {c} : task[d].ticket > TicketOf(c)
      ]_vars

\* The lock has been released with one caller waiting, and before that one
\* ran another caller arrived and queued up behind it.
C12_Witness ==
    /\ ~locked
    /\ Len(waiters) = 2
    /\ task[waiters[1]].ticket < task[waiters[2]].ticket

\* Caller c is in the sleep of _handle_rate_limit right after both pools were
\* used up by acquisitions made with no clock advance between them.
AfterRapidCalls(c) ==
    /\ task[c].pc = "rl_sleep"
    /\ last_request_time = 0
    /\ acquired = 8

\* C13 as stated: after the back-to-back acquisitions that used up both
\* pools, the next one sleeps about 1/3 second (the time one token takes at
\* 3 tokens per second; half a second at most), and not longer.
C13_SleepsOneThirdSecond ==
    \A c \in Callers :
        AfterRapidCalls(c) =>
            2 * (task[c].wake - last_request_time) <= TicksPerSecond

\* C13, amended: after the back-to-back acquisitions that used up both
\* pools, and in every other sleep of _handle_rate_limit, the acquisition
\* sleeps 1 second from the refill it has just made, with both pools empty.
C13_SleepsOneSecond ==
    \A c \in Callers :
        task[c].pc = "rl_sleep" =>
            /\ task[c].wake = last_request_time + TicksPerSecond
            /\ tokens = 0
            /\ burst_tokens = 0

\* Eight acquisitions at time 0 took every token and the ninth is asleep
\* until time 1 s.
C13_Witness ==
    \E c \in Callers :
        /\ AfterRapidCalls(c)
        /\ now = 0
        /\ task[c].wake = TicksPerSecond
        /\ attempts = 9

\* Caller c's call, begun with an earlier step, ends in this step.
Ends(c) == task[c].pc \notin Finished /\ task'[c].pc \in {"done", "raised"}

\* The 429 responses caller c's call has received once this step is taken.
Received429(c) ==
    task[c].n429
        + (IF task[c].pc = "awaiting" /\ task'[c].status = 429 THEN 1 ELSE 0)

\* C14: a call that passed validation has, when it ends, made one network
\* call more than it received 429 responses; every network call comes with
\* one token acquisition by the call; and once a response other than 429 has
\* come in, the call makes no further network call.
C14_OneCallPerAttempt ==
    [][\A c \in Callers :
          /\ Sends(c) => acquired' = acquired + 1
          /\ Ends(c) => task[c].netCalls = 1 + Received429(c)
          /\ task[c].pc \in {"read_json", "read_text"} => ~Sends(c)
      ]_vars

\* C15: however often the server answers 429, a call stops retrying at some
\* fixed number of attempts, one below the number of entries into do_request
\* the model follows.
C15_RetriesStopBelowBound ==
    \A c \in Callers : task[c].netCalls <= MaxPipelineAttempts - 1

\* Caller c's 200 response arrives in this step.
Receives200(c) ==
    task[c].pc = "awaiting" /\ task'[c].pc = "read_json" /\ task'[c].status = 200

\* The ETag cache after this step is the one before with key at value.
CacheSet(key, value) ==
    /\ DOMAIN etag_cache' = DOMAIN etag_cache \cup {key}
    /\ etag_cache'[key] = value
    /\ \A k \in DOMAIN etag_cache \ {key} : etag_cache'[k] = etag_cache[k]

\* C16: the step that takes in a 200 response with an Etag header sets the
\* cache entry of its endpoint to that header; every other step, whatever
\* the status, failure or return, leaves the cache as it is; no entry goes.
C16_CacheWrittenOnlyBy200 ==
    [][/\ \A c \in Callers :
              (Receives200(c) /\ "Etag" \in DOMAIN task'[c].headers)
                  => CacheSet(task[c].method, task'[c].headers["Etag"])
       /\ (\E c \in Callers :
               Receives200(c) /\ "Etag" \in DOMAIN task'[c].headers)
              \/ etag_cache' = etag_cache
       /\ DOMAIN etag_cache \subseteq DOMAIN etag_cache'
      ]_vars

\* An entry was created by one 200 response and overwritten by the next,
\* whose body then turned out not to be JSON.
C16_Witness ==
    \E c \in Callers :
        /\ task[c].outcome = "malformed"
        /\ task[c].method \in DOMAIN etag_cache
        /\ etag_cache[task[c].method] = "v2"
        /\ <<task[c].method, "v1">> \in delivered

\* Caller c gets the lock and runs _handle_rate_limit up to its return or
\* its sleep in this step.
EntersSection(c) ==
    /\ task[c].pc \in Finished \cup {"sleep429", "wait_lock"}
    /\ task'[c].pc = "rl_sleep" \/ Acquires(c)

\* Caller c comes out of the sleep of _handle_rate_limit in this step.
Wakes(c) == task[c].pc = "rl_sleep" /\ Acquires(c)

\* The two counts after a refill made now: 3 tokens per second, capped.
RefillNow == (3 * (now - last_request_time)) \div TicksPerSecond
SteadyNow == IF tokens + RefillNow > 3 THEN 3 ELSE tokens + RefillNow
BurstNow == IF burst_tokens + RefillNow > 5 THEN 5 ELSE burst_tokens + RefillNow

\* C17: with the counts as the refill leaves them, an acquisition takes one
\* steady token when there is one, else one burst token when there is one,
\* either way without suspending and leaving the other pool alone; with
\* neither it takes nothing and sleeps, for 1 second at most, and on waking
\* refills again and takes one steady token.
C17_OneTokenFromOnePool ==
    [][\A c \in Callers :
          /\ EntersSection(c) =>
                 IF SteadyNow >= 1
                 THEN /\ tokens' = SteadyNow - 1
                      /\ burst_tokens' = BurstNow
                      /\ Acquires(c)
                      /\ task'[c].pc # "rl_sleep"
                 ELSE IF BurstNow >= 1
                 THEN /\ tokens' = SteadyNow
                      /\ burst_tokens' = BurstNow - 1
                      /\ Acquires(c)
                      /\ task'[c].pc # "rl_sleep"
                 ELSE /\ tokens' = SteadyNow
                      /\ burst_tokens' = BurstNow
                      /\ acquired' = acquired
                      /\ task'[c].pc = "rl_sleep"
                      /\ task'[c].wake - now <= TicksPerSecond
          /\ Wakes(c) =>
                 /\ tokens' = SteadyNow - 1
                 /\ burst_tokens' = BurstNow
      ]_vars

\* Three steady and five burst tokens went at time 0, the ninth acquisition
\* slept, woke at 1 s and took a steady token, and so did the tenth.
C17_Witness ==
    /\ acquired = 10
    /\ last_request_time = TicksPerSecond
    /\ tokens = 1
    /\ burst_tokens = 3
    /\ ~locked

\* C18: over the refills made since the steady pool was last full, the
\* tokens put into it are 3 per second of the time those refills span, to
\* within one token, however many refills the time was split into.
C18_RefillByElapsedTime ==
    LET span == last_request_time - refills.since
    IN  /\ refills.added * TicksPerSecond <= 3 * span + TicksPerSecond
        /\ refills.added * TicksPerSecond >= 3 * span - TicksPerSecond

\* Whole seconds that cover the time from construction until now.
SecondsSoFar == (now + TicksPerSecond - 1) \div TicksPerSecond

\* C19: in the T whole seconds since construction at most 3 * T + 8
\* acquisitions have completed, whatever the callers do.
C19_SustainedRate ==
    acquired <= 3 * SecondsSoFar + 8

\* A body that came with the validator held for endpoint m is being read.
BeingRead(m) ==
    \E c \in Callers :
        /\ task[c].pc = "read_json"
        /\ task[c].method = m
        /\ "Etag" \in DOMAIN task[c].headers
        /\ task[c].headers["Etag"] = etag_cache[m]

\* C20: the validator cached for an endpoint came with a 200 response whose
\* body was parsed and returned to a caller, or is being read right now; a
\* body that turns out unreadable leaves no validator behind.
C20_CachedValidatorWasDelivered ==
    \A m \in DOMAIN etag_cache :
        <<m, etag_cache[m]>> \in delivered \/ BeingRead(m)

====
